---- MODULE Spec2Model ----
(***************************************************************************)
(* mlflow.google.aiplatform.register_model: resolve the project and the    *)
(* image URI, build the serving image, push it, upload the model to Cloud  *)
(* AI Platform and (optionally) wait for the operation.                    *)
(*                                                                         *)
(* One invocation is a sequence of steps; each call to an external         *)
(* collaborator (google.auth.default, build_image, images.push,            *)
(* upload_model, Operation.result) is one step whose outcome the           *)
(* environment chooses.  Every such call is appended to the invocation's   *)
(* log with its arguments and its outcome.                                 *)
(***************************************************************************)
EXTENDS Integers, Sequences, FiniteSets

(* ------------------------------------------------------------------ *)
(* Bounds                                                              *)
(* ------------------------------------------------------------------ *)

\* Longest stream of records the registry push yields.
MaxStream == 2

(* ------------------------------------------------------------------ *)
(* Python values                                                       *)
(* ------------------------------------------------------------------ *)

\* Python's None where a str is expected; distinct from every str used.
None == "<None>"

\* Python's None where an int is expected; distinct from every int used.
NoneInt == -1

\* Python's None where a dict is expected.
NoneDict == [NoneType |-> TRUE]

\* The empty dict {}.
EmptyDict == [k \in {} |-> TRUE]

\* bool(v) of an optional str: None and "" are falsy.
Truthy(v) == v # None /\ v # ""

\* bool(d) of an optional dict: None and {} are falsy.
TruthyDict(d) == d # NoneDict /\ DOMAIN d # {}

\* str(v) as str.format renders an optional str.
Str(v) == IF v = None THEN "None" ELSE v

\* The keys of an optional dict.
Keys(d) == IF d = NoneDict THEN {} ELSE DOMAIN d

\* `name in obj`, and hasattr(obj, name) of an exception object.
Has(obj, name) == name \in DOMAIN obj

\* A local variable that has not been assigned.
Unbound == [kind |-> "unbound"]

(* ------------------------------------------------------------------ *)
(* Module constants and the signature's defaults                       *)
(* ------------------------------------------------------------------ *)

DEFAULT_LOCATION == "us-central1"

DEFAULT_WAIT_TIMEOUT == 1800

FORCE_TF_SERVING_OUTPUT == "FORCE_TF_SERVING_OUTPUT"

\* API_ENDPOINT_TEMPLATE.format(location=location)
API_ENDPOINT_TEMPLATE(location) == Str(location) \o "-aiplatform.googleapis.com"

\* MODEL_PARENT_TEMPLATE.format(project=project, location=location)
MODEL_PARENT_TEMPLATE(project, location) ==
    "projects/" \o Str(project) \o "/locations/" \o Str(location)

\* A slip in the template: the two placeholders exchanged.
IMAGE_URI_TEMPLATE_Swapped(project, image_name) ==
    "gcr.io/" \o Str(image_name) \o "/" \o Str(project)

\* IMAGE_URI_TEMPLATE.format(project=project, image_name=image_name)
IMAGE_URI_TEMPLATE(project, image_name) ==
    "gcr.io/" \o Str(project) \o "/" \o Str(image_name)

(* ------------------------------------------------------------------ *)
(* Inputs: the requests and what the collaborators may answer          *)
(* ------------------------------------------------------------------ *)

Calls == {1, 2}

ProjectArgs == {None, "", "proj1"}

ImageUriArgs == {None, "gcr.io/repo/img:v1"}

DisplayNames == {"demo", "iris"}

SourceDirs == {None, "/src/mlflow"}

ModelOptionsArgs ==
    { NoneDict,
      EmptyDict,
      [labels |-> [team |-> "ml"], container_spec |-> [image_uri |-> "X"]],
      [display_name |-> "other"] }

Locations == {DEFAULT_LOCATION, "europe-west4"}

WaitTimeouts == {DEFAULT_WAIT_TIMEOUT, 60}

\* The arguments of one call of register_model, defaults applied.
Requests ==
    [ model_uri : {"/tmp/model"},
      display_name : DisplayNames,
      destination_image_uri : ImageUriArgs,
      mlflow_source_dir : SourceDirs,
      model_options : ModelOptionsArgs,
      project : ProjectArgs,
      location : Locations,
      synchronous : BOOLEAN,
      wait_timeout : WaitTimeouts ]

\* What google.auth.default() gives as the project: one, or None.
AdcProjects == {None, "adc-proj"}

\* The DefaultCredentialsError google.auth.default() raises.  Whether the
\* object has a `message` attribute is the library's and the interpreter's
\* doing: an exception of Python 3 has none unless its class sets one.
CredentialErrors ==
    { [type |-> "DefaultCredentialsError", args |-> "no credentials"],
      [type |-> "DefaultCredentialsError", args |-> "no credentials",
       message |-> "no credentials"] }

BuildErrors == {[type |-> "MlflowException", message |-> "build failed"]}

PushErrors == {[type |-> "DockerException", message |-> "daemon unreachable"]}

UploadErrors == {[type |-> "GoogleAPICallError", message |-> "permission denied"]}

TimeoutErr == [type |-> "TimeoutError", message |-> "operation did not complete"]

ResultErrors ==
    { TimeoutErr, [type |-> "GoogleAPICallError", message |-> "upload failed"] }

\* The decoded records of a push stream: progress, a record with neither
\* key, and two error records (the second also carries a status).
PushRecords ==
    { [status |-> "Pushing"],
      [aux |-> "digest"],
      [errorDetail |-> [message |-> "denied"], error |-> "denied"],
      [errorDetail |-> [message |-> "unauthorized"], status |-> "Failed"] }

RECURSIVE SeqsUpTo(_, _)
SeqsUpTo(S, n) ==
    IF n = 0 THEN {<<>>}
    ELSE LET shorter == SeqsUpTo(S, n - 1)
         IN  shorter \cup
             { Append(s, x) : s \in {t \in shorter : Len(t) = n - 1}, x \in S }

PushStreams == SeqsUpTo(PushRecords, MaxStream)

\* The operation handle upload_model returns and the record it resolves to.
Operations == {[kind |-> "Operation", name |-> "operations/1"]}

ModelRecords == {[kind |-> "Model", name |-> "models/1"]}

(* ------------------------------------------------------------------ *)
(* State                                                               *)
(* ------------------------------------------------------------------ *)

VARIABLES
    cli,                    \* the command line the invocation came from, if any
    pc,                     \* where each invocation stands
    req,                    \* the arguments it was called with
    project,                \* local `project`
    destination_image_uri,  \* local `destination_image_uri`
    stream,                 \* the records of `result` not yet iterated
    printed,                \* what print() wrote
    operation,              \* local `operation`
    upload_model_response,  \* local `upload_model_response`
    outcome,                \* how the call ended: returned value or raised
    log                     \* the collaborator calls made, in order

vars == << cli, pc, req, project, destination_image_uri, stream, printed,
           operation, upload_model_response, outcome, log >>

Running == [kind |-> "running"]

Returned(v) == [kind |-> "return", value |-> v]

Raised(e) == [kind |-> "raise", exc |-> e]

Ret(v) == [kind |-> "ret", value |-> v]

Exc(e) == [kind |-> "exc", exc |-> e]

\* One logged call: the function, its arguments, how it came back.
Entry(fn, args, out) == [fn |-> fn, args |-> args, out |-> out]

NoRequest == [none |-> TRUE]

\* register_model called from Python, not from a command line.
NoCommand == [command |-> "none"]

\* The state before register_model is called; only `active` invocations run.
InitOf(active) ==
    /\ cli = [c \in Calls |-> NoCommand]
    /\ pc = [c \in Calls |-> IF c \in active THEN "idle" ELSE "off"]
    /\ req = [c \in Calls |-> NoRequest]
    /\ project = [c \in Calls |-> None]
    /\ destination_image_uri = [c \in Calls |-> None]
    /\ stream = [c \in Calls |-> <<>>]
    /\ printed = [c \in Calls |-> <<>>]
    /\ operation = [c \in Calls |-> Unbound]
    /\ upload_model_response = [c \in Calls |-> Unbound]
    /\ outcome = [c \in Calls |-> Running]
    /\ log = [c \in Calls |-> <<>>]

Init == InitOf({1})

\* The invocation ends by raising e.
Raise(c, e) ==
    /\ pc' = [pc EXCEPT ![c] = "done"]
    /\ outcome' = [outcome EXCEPT ![c] = Raised(e)]

\* The invocation goes on at `label`.
Goto(c, label) ==
    /\ pc' = [pc EXCEPT ![c] = label]
    /\ UNCHANGED outcome

Logged(c, e) == log' = [log EXCEPT ![c] = Append(@, e)]

(* ------------------------------------------------------------------ *)
(* register_model, lines 118-140: project and image URI                *)
(* ------------------------------------------------------------------ *)

\* register_model(...) is called with the arguments r.
Call(c) ==
    /\ pc[c] = "idle"
    /\ \E r \in Requests :
        /\ req' = [req EXCEPT ![c] = r]
        /\ project' = [project EXCEPT ![c] = r.project]
        /\ destination_image_uri' =
               [destination_image_uri EXCEPT ![c] = r.destination_image_uri]
    /\ Goto(c, "resolve")
    /\ UNCHANGED << cli, stream, printed, operation, upload_model_response, log >>

\* The credentials asked for their project even though one was given; the
\* given one is kept when they name none.
ProjectGiven_DiscoversAnyway(c) ==
    /\ pc[c] = "resolve"
    /\ Truthy(project[c])
    /\ \E p \in AdcProjects :
        /\ project' = [project EXCEPT ![c] = IF Truthy(p) THEN p ELSE @]
        /\ Logged(c, Entry("default", <<>>, Ret(p)))
    /\ Goto(c, "image_uri")
    /\ UNCHANGED << cli, req, destination_image_uri, stream, printed, operation,
                    upload_model_response >>

\* `if not project:` is false: the given project stands.
ProjectGiven(c) ==
    /\ pc[c] = "resolve"
    /\ Truthy(project[c])
    /\ Goto(c, "image_uri")
    /\ UNCHANGED << cli, req, project, destination_image_uri, stream, printed,
                    operation, upload_model_response, log >>

\* `_, project = google.auth.default()` returns: project is rebound to
\* whatever the credentials name, None included.
DefaultCredentials(c) ==
    /\ pc[c] = "resolve"
    /\ ~Truthy(project[c])
    /\ \E p \in AdcProjects :
        /\ project' = [project EXCEPT ![c] = p]
        /\ Logged(c, Entry("default", <<>>, Ret(p)))
    /\ Goto(c, "image_uri")
    /\ UNCHANGED << cli, req, destination_image_uri, stream, printed, operation,
                    upload_model_response >>

\* The text of the ValueError of lines 126-130.
ConfigurationMessage(detail) ==
    "You must either pass a project ID in or set a default project"
    \o " (e.g. using gcloud config set project <PROJECT ID>. Default credentials"
    \o " not found: " \o detail

\* What the except clause of lines 125-130 raises for e: the ValueError
\* built from e.message, or the AttributeError of evaluating e.message.
CredentialsHandler(e) ==
    IF Has(e, "message")
    THEN [type |-> "ValueError", message |-> ConfigurationMessage(e.message)]
    ELSE [type |-> "AttributeError",
          message |-> "'DefaultCredentialsError' object has no attribute 'message'"]

\* google.auth.default() raises DefaultCredentialsError.
DefaultCredentialsError(c) ==
    /\ pc[c] = "resolve"
    /\ ~Truthy(project[c])
    /\ \E e \in CredentialErrors :
        /\ Logged(c, Entry("default", <<>>, Exc(e)))
        /\ Raise(c, CredentialsHandler(e))
    /\ UNCHANGED << cli, req, project, destination_image_uri, stream, printed,
                    operation, upload_model_response >>

\* Lines 132-140: a destination image URI that is not set is synthesized.
DefaultImageUri(c) ==
    /\ pc[c] = "image_uri"
    /\ destination_image_uri' =
           [destination_image_uri EXCEPT ![c] =
               IF ~Truthy(@)
               THEN IMAGE_URI_TEMPLATE(project[c], req[c].display_name)
               ELSE @]
    /\ Goto(c, "build")
    /\ UNCHANGED << cli, req, project, stream, printed, operation,
                    upload_model_response, log >>

(* ------------------------------------------------------------------ *)
(* _build_serving_image, lines 160-189                                 *)
(* ------------------------------------------------------------------ *)

\* The arguments of flavor_backend.build_image (lines 167-172).
BuildArgs(c) ==
    [ model_uri |-> req[c].model_uri,
      image |-> destination_image_uri[c],
      install_mlflow |-> (req[c].mlflow_source_dir # None),
      mlflow_home |-> req[c].mlflow_source_dir ]

\* A build that is tried a second time after it failed once.
BuildImage_Retry(c) ==
    /\ pc[c] = "build"
    /\ \/ /\ Logged(c, Entry("build_image", BuildArgs(c), Ret(None)))
          /\ Goto(c, "push")
       \/ \E e \in BuildErrors :
            /\ Logged(c, Entry("build_image", BuildArgs(c), Exc(e)))
            /\ IF log[c] = <<>> \/ log[c][Len(log[c])].fn # "build_image"
               THEN Goto(c, "build")
               ELSE Raise(c, e)
    /\ UNCHANGED << cli, req, project, destination_image_uri, stream, printed,
                    operation, upload_model_response >>

\* flavor_backend.build_image(...) returns, or raises and ends the call.
BuildImage(c) ==
    /\ pc[c] = "build"
    /\ \/ /\ Logged(c, Entry("build_image", BuildArgs(c), Ret(None)))
          /\ Goto(c, "push")
       \/ \E e \in BuildErrors :
            /\ Logged(c, Entry("build_image", BuildArgs(c), Exc(e)))
            /\ Raise(c, e)
    /\ UNCHANGED << cli, req, project, destination_image_uri, stream, printed,
                    operation, upload_model_response >>

\* A push of the image named after the project and the display name,
\* whatever tag the image was built under.
PushArgs_Recomputed(c) ==
    [ image |-> IMAGE_URI_TEMPLATE(project[c], req[c].display_name),
      stream |-> TRUE, decode |-> TRUE ]

\* The arguments of client.images.push (lines 176-180).
PushArgs(c) ==
    [image |-> destination_image_uri[c], stream |-> TRUE, decode |-> TRUE]

\* client.images.push(...) returns the stream of decoded records, or raises.
PushImage(c) ==
    /\ pc[c] = "push"
    /\ \/ \E s \in PushStreams :
            /\ Logged(c, Entry("push", PushArgs(c), Ret(s)))
            /\ stream' = [stream EXCEPT ![c] = s]
            /\ Goto(c, "scan")
       \/ \E e \in PushErrors :
            /\ Logged(c, Entry("push", PushArgs(c), Exc(e)))
            /\ Raise(c, e)
            /\ UNCHANGED stream
    /\ UNCHANGED << cli, req, project, destination_image_uri, printed, operation,
                    upload_model_response >>

\* The docker.errors.APIError of lines 185-187.
APIError(line) == [type |-> "APIError", message |-> line["errorDetail"]["message"]]

\* The loop body with the two tests in the other order, the second an elif:
\* a record with a status is printed and its errorDetail is not looked at.
ScanLine_StatusFirst(c) ==
    /\ pc[c] = "scan"
    /\ stream[c] # <<>>
    /\ LET line == Head(stream[c])
       IN  /\ stream' = [stream EXCEPT ![c] = Tail(@)]
           /\ IF Has(line, "status")
              THEN /\ printed' = [printed EXCEPT ![c] = Append(@, line["status"])]
                   /\ Goto(c, "scan")
              ELSE IF Has(line, "errorDetail")
              THEN /\ Raise(c, APIError(line))
                   /\ UNCHANGED printed
              ELSE /\ Goto(c, "scan")
                   /\ UNCHANGED printed
    /\ UNCHANGED << cli, req, project, destination_image_uri, operation,
                    upload_model_response, log >>

\* One iteration of `for line in result:` (lines 181-189).
ScanLine(c) ==
    /\ pc[c] = "scan"
    /\ stream[c] # <<>>
    /\ LET line == Head(stream[c])
       IN  /\ stream' = [stream EXCEPT ![c] = Tail(@)]
           /\ IF Has(line, "errorDetail")
              THEN /\ Raise(c, APIError(line))
                   /\ UNCHANGED printed
              ELSE /\ Goto(c, "scan")
                   /\ printed' =
                          [printed EXCEPT ![c] =
                              IF Has(line, "status")
                              THEN Append(@, line["status"])
                              ELSE @]
    /\ UNCHANGED << cli, req, project, destination_image_uri, operation,
                    upload_model_response, log >>

\* The function returning without the stream having been iterated to its
\* end.
ScanEnd_Early(c) ==
    /\ pc[c] = "scan"
    /\ Goto(c, "upload")
    /\ UNCHANGED << cli, req, project, destination_image_uri, stream, printed,
                    operation, upload_model_response, log >>

\* The stream is exhausted: _build_serving_image returns.
ScanEnd(c) ==
    /\ pc[c] = "scan"
    /\ stream[c] = <<>>
    /\ Goto(c, "upload")
    /\ UNCHANGED << cli, req, project, destination_image_uri, stream, printed,
                    operation, upload_model_response, log >>

(* ------------------------------------------------------------------ *)
(* _upload_model, lines 193-235                                        *)
(* ------------------------------------------------------------------ *)

\* The default descriptor with the image URI computed anew from the
\* request's project and display name instead of taken from the argument.
ModelCfg_Recomputed(c, image_uri, display_name) ==
    [ display_name |-> display_name,
      container_spec |->
        [ image_uri |-> IMAGE_URI_TEMPLATE(req[c].project, display_name),
          ports |-> << [container_port |-> 8080] >>,
          env |-> << [name |-> FORCE_TF_SERVING_OUTPUT, value |-> "True"] >>,
          predict_route |-> "/invocations",
          health_route |-> "/ping" ] ]

\* The default descriptor without the env entry.
ModelCfg_NoEnv(c, image_uri, display_name) ==
    [ display_name |-> display_name,
      container_spec |->
        [ image_uri |-> image_uri,
          ports |-> << [container_port |-> 8080] >>,
          predict_route |-> "/invocations",
          health_route |-> "/ping" ] ]

\* model_cfg as lines 201-217 build it (c, the invocation, plays no part).
ModelCfg(c, image_uri, display_name) ==
    [ display_name |-> display_name,
      container_spec |->
        [ image_uri |-> image_uri,
          ports |-> << [container_port |-> 8080] >>,
          env |-> << [name |-> FORCE_TF_SERVING_OUTPUT, value |-> "True"] >>,
          predict_route |-> "/invocations",
          health_route |-> "/ping" ] ]

\* One level of dict.update.
Update(d, o) ==
    [k \in DOMAIN d \cup DOMAIN o |-> IF k \in DOMAIN o THEN o[k] ELSE d[k]]

\* A merge that descends into container_spec instead of replacing it.
DictUpdate_Deep(d, o) ==
    [k \in DOMAIN d \cup DOMAIN o |->
        IF k \notin DOMAIN o THEN d[k]
        ELSE IF k = "container_spec" /\ k \in DOMAIN d THEN Update(d[k], o[k])
        ELSE o[k]]

\* d.update(o): every key of o is set in d to o's value, the rest stay.
DictUpdate(d, o) ==
    [k \in DOMAIN d \cup DOMAIN o |-> IF k \in DOMAIN o THEN o[k] ELSE d[k]]

\* The descriptor submitted: lines 201-219.
UploadModelCfg(c, image_uri, display_name, model_options) ==
    IF TruthyDict(model_options)
    THEN DictUpdate(ModelCfg(c, image_uri, display_name), model_options)
    ELSE ModelCfg(c, image_uri, display_name)

\* The parent built from the project argument as the caller gave it, not
\* from the local that the credentials may have rebound.
UploadArgs_RequestProject(c) ==
    [ api_endpoint |-> API_ENDPOINT_TEMPLATE(req[c].location),
      parent |-> MODEL_PARENT_TEMPLATE(req[c].project, req[c].location),
      model |-> UploadModelCfg(c, destination_image_uri[c],
                               req[c].display_name, req[c].model_options) ]

\* The endpoint kept in one place for all invocations: an invocation finds
\* there the location of another one that has started.
UploadArgs_SharedEndpoint(c) ==
    LET others == {d \in Calls \ {c} : pc[d] \notin {"off", "idle"}}
        location == IF others = {} THEN req[c].location
                    ELSE req[CHOOSE d \in others : TRUE].location
    IN  [ api_endpoint |-> API_ENDPOINT_TEMPLATE(location),
          parent |-> MODEL_PARENT_TEMPLATE(project[c], req[c].location),
          model |-> UploadModelCfg(c, destination_image_uri[c],
                                   req[c].display_name, req[c].model_options) ]

\* The client's endpoint and the arguments of upload_model (lines 221-234).
UploadArgs(c) ==
    [ api_endpoint |-> API_ENDPOINT_TEMPLATE(req[c].location),
      parent |-> MODEL_PARENT_TEMPLATE(project[c], req[c].location),
      model |-> UploadModelCfg(c, destination_image_uri[c],
                               req[c].display_name, req[c].model_options) ]

\* An upload whose failure is caught and raised again as another error.
UploadModel_Wrapped(c) ==
    /\ pc[c] = "upload"
    /\ \/ \E op \in Operations :
            /\ Logged(c, Entry("upload_model", UploadArgs(c), Ret(op)))
            /\ operation' = [operation EXCEPT ![c] = op]
            /\ Goto(c, "wait")
       \/ \E e \in UploadErrors :
            /\ Logged(c, Entry("upload_model", UploadArgs(c), Exc(e)))
            /\ Raise(c, [type |-> "MlflowException", message |-> e.message])
            /\ UNCHANGED operation
    /\ UNCHANGED << cli, req, project, destination_image_uri, stream, printed,
                    upload_model_response >>

\* model_client.upload_model(...) returns the operation, or raises.
UploadModel(c) ==
    /\ pc[c] = "upload"
    /\ \/ \E op \in Operations :
            /\ Logged(c, Entry("upload_model", UploadArgs(c), Ret(op)))
            /\ operation' = [operation EXCEPT ![c] = op]
            /\ Goto(c, "wait")
       \/ \E e \in UploadErrors :
            /\ Logged(c, Entry("upload_model", UploadArgs(c), Exc(e)))
            /\ Raise(c, e)
            /\ UNCHANGED operation
    /\ UNCHANGED << cli, req, project, destination_image_uri, stream, printed,
                    upload_model_response >>

(* ------------------------------------------------------------------ *)
(* register_model, lines 156-158: wait and return                      *)
(* ------------------------------------------------------------------ *)

\* A wait that catches the timeout and hands the operation back instead.
WaitResult_SwallowTimeout(c) ==
    /\ pc[c] = "wait"
    /\ req[c].synchronous
    /\ LET args == [timeout |-> req[c].wait_timeout]
       IN  \/ \E r \in ModelRecords :
                /\ Logged(c, Entry("result", args, Ret(r)))
                /\ upload_model_response' = [upload_model_response EXCEPT ![c] = r]
                /\ Goto(c, "return")
           \/ \E e \in ResultErrors :
                /\ Logged(c, Entry("result", args, Exc(e)))
                /\ IF e = TimeoutErr
                   THEN /\ upload_model_response' =
                               [upload_model_response EXCEPT ![c] = operation[c]]
                        /\ Goto(c, "return")
                   ELSE /\ Raise(c, e)
                        /\ UNCHANGED upload_model_response
    /\ UNCHANGED << cli, req, project, destination_image_uri, stream, printed,
                    operation >>

\* `if synchronous:` is true: operation.result(timeout=wait_timeout) gives
\* the finished record, or raises (timeout, remote failure).
WaitResult(c) ==
    /\ pc[c] = "wait"
    /\ req[c].synchronous
    /\ LET args == [timeout |-> req[c].wait_timeout]
       IN  \/ \E r \in ModelRecords :
                /\ Logged(c, Entry("result", args, Ret(r)))
                /\ upload_model_response' = [upload_model_response EXCEPT ![c] = r]
                /\ Goto(c, "return")
           \/ \E e \in ResultErrors :
                /\ Logged(c, Entry("result", args, Exc(e)))
                /\ Raise(c, e)
                /\ UNCHANGED upload_model_response
    /\ UNCHANGED << cli, req, project, destination_image_uri, stream, printed,
                    operation >>

\* `if synchronous:` is false: nothing is assigned.
SkipWait(c) ==
    /\ pc[c] = "wait"
    /\ ~req[c].synchronous
    /\ Goto(c, "return")
    /\ UNCHANGED << cli, req, project, destination_image_uri, stream, printed,
                    operation, upload_model_response, log >>

UnboundLocalError ==
    [ type |-> "UnboundLocalError",
      message |-> "local variable 'upload_model_response' referenced before assignment" ]

\* A return of the operation handle whatever the mode.
Return_Operation(c) ==
    /\ pc[c] = "return"
    /\ pc' = [pc EXCEPT ![c] = "done"]
    /\ outcome' = [outcome EXCEPT ![c] = Returned(operation[c])]
    /\ UNCHANGED << cli, req, project, destination_image_uri, stream, printed,
                    operation, upload_model_response, log >>

\* `return upload_model_response` (line 158): the value, or the
\* UnboundLocalError of reading a local that was never assigned.
Return(c) ==
    /\ pc[c] = "return"
    /\ IF upload_model_response[c] = Unbound
       THEN Raise(c, UnboundLocalError)
       ELSE /\ pc' = [pc EXCEPT ![c] = "done"]
            /\ outcome' = [outcome EXCEPT ![c] = Returned(upload_model_response[c])]
    /\ UNCHANGED << cli, req, project, destination_image_uri, stream, printed,
                    operation, upload_model_response, log >>

(* ------------------------------------------------------------------ *)
(* The two register-model commands                                     *)
(* mlflow/google/aiplatform/cli.py and mlflow/google/cli.py            *)
(* ------------------------------------------------------------------ *)

\* What the options of a command line may be given as (each may be left
\* out): the text typed after the option.
CliOptionValues ==
    [ model_options |-> {"{\"display_name\": \"other\"}"},
      project |-> {"proj1"},
      destination_image_uri |-> {"gcr.io/repo/img:v1"},
      location |-> {"europe-west4"},
      wait_timeout |-> {"60"},
      mlflow_source_dir |-> {"/src/mlflow"} ]

\* The command lines over the optional options `names`: the two required
\* options and any subset of the optional ones.
CommandLines(names) ==
    LET required == [model_uri |-> "/tmp/model", display_name |-> "demo"]
        texts == UNION {CliOptionValues[n] : n \in names}
        given == UNION {[G -> texts] : G \in SUBSET names}
    IN  { [n \in DOMAIN g \cup DOMAIN required |->
              IF n \in DOMAIN g THEN g[n] ELSE required[n]] :
          g \in {h \in given : \A n \in DOMAIN h : h[n] \in CliOptionValues[n]} }

\* The value click hands to the command for an option: the text given, or
\* the option's declared default.
Option(argv, name, default) == IF Has(argv, name) THEN argv[name] ELSE default

\* click's conversion of an option whose declared default is an int.
ClickInt(text) ==
    CASE text = "60" -> 60
      [] text = "1800" -> 1800

\* json.loads of the --model-options texts.
JsonLoads(text) ==
    CASE text = "{}" -> EmptyDict
      [] text = "{\"display_name\": \"other\"}" -> [display_name |-> "other"]

\* model_cfg of both commands: None, or the parsed --model-options.
CliModelCfg(argv) ==
    IF Option(argv, "model_options", None) # None
    THEN JsonLoads(argv["model_options"])
    ELSE NoneDict

\* The keyword arguments mlflow/google/aiplatform/cli.py passes to
\* do_register_model: --location defaults to "us-central1", --wait-timeout
\* to 1800 (lines 58-69), synchronous is True.
AiplatformCliRequest(argv) ==
    [ model_uri |-> argv["model_uri"],
      display_name |-> argv["display_name"],
      destination_image_uri |-> Option(argv, "destination_image_uri", None),
      mlflow_source_dir |-> Option(argv, "mlflow_source_dir", None),
      model_options |-> CliModelCfg(argv),
      project |-> Option(argv, "project", None),
      location |-> Option(argv, "location", "us-central1"),
      synchronous |-> TRUE,
      wait_timeout |-> IF Has(argv, "wait_timeout")
                       THEN ClickInt(argv["wait_timeout"])
                       ELSE 1800 ]

\* The keyword arguments mlflow/google/cli.py passes to
\* mlflow.google.register_model: --location and --wait-timeout are declared
\* with default=None (lines 58-69) and handed on as they are, a given
\* --wait-timeout as the text typed; mlflow_source_dir is not passed and
\* takes the function's default.
GoogleCliRequest(argv) ==
    [ model_uri |-> argv["model_uri"],
      display_name |-> argv["display_name"],
      destination_image_uri |-> Option(argv, "destination_image_uri", None),
      mlflow_source_dir |-> None,
      model_options |-> CliModelCfg(argv),
      project |-> Option(argv, "project", None),
      location |-> Option(argv, "location", None),
      synchronous |-> TRUE,
      wait_timeout |-> IF Has(argv, "wait_timeout")
                       THEN argv["wait_timeout"]
                       ELSE NoneInt ]

\* A command `name` run with argv calls register_model with r.
Command(c, name, argv, r) ==
    /\ pc[c] = "idle"
    /\ cli' = [cli EXCEPT ![c] = [command |-> name, argv |-> argv]]
    /\ req' = [req EXCEPT ![c] = r]
    /\ project' = [project EXCEPT ![c] = r.project]
    /\ destination_image_uri' =
           [destination_image_uri EXCEPT ![c] = r.destination_image_uri]
    /\ Goto(c, "resolve")
    /\ UNCHANGED << stream, printed, operation, upload_model_response, log >>

\* register-model of mlflow/google/aiplatform/cli.py.
AiplatformCli(c) ==
    \E argv \in CommandLines(DOMAIN CliOptionValues) :
        Command(c, "mlflow.google.aiplatform.cli", argv, AiplatformCliRequest(argv))

\* register-model of mlflow/google/cli.py, which has no --mlflow-source-dir.
\* mlflow.google.register_model is the package's re-export of
\* mlflow.google.aiplatform.register_model.
GoogleCli(c) ==
    \E argv \in CommandLines(DOMAIN CliOptionValues \ {"mlflow_source_dir"}) :
        Command(c, "mlflow.google.cli", argv, GoogleCliRequest(argv))

(* ------------------------------------------------------------------ *)
(* The specification                                                   *)
(* ------------------------------------------------------------------ *)

Next ==
    \E c \in Calls :
        \/ Call(c)
        \/ ProjectGiven(c)
        \/ DefaultCredentials(c)
        \/ DefaultCredentialsError(c)
        \/ DefaultImageUri(c)
        \/ BuildImage(c)
        \/ PushImage(c)
        \/ ScanLine(c)
        \/ ScanEnd(c)
        \/ UploadModel(c)
        \/ WaitResult(c)
        \/ SkipWait(c)
        \/ Return(c)

Spec == Init /\ [][Next]_vars

\* register_model reached from the command line.  Both commands pass
\* synchronous=True, so the branch that skips the wait is not part of it.
NextCli ==
    \E c \in Calls :
        \/ AiplatformCli(c)
        \/ GoogleCli(c)
        \/ ProjectGiven(c)
        \/ DefaultCredentials(c)
        \/ DefaultCredentialsError(c)
        \/ DefaultImageUri(c)
        \/ BuildImage(c)
        \/ PushImage(c)
        \/ ScanLine(c)
        \/ ScanEnd(c)
        \/ UploadModel(c)
        \/ WaitResult(c)
        \/ Return(c)

SpecCli == Init /\ [][NextCli]_vars

\* The requests of the invocations that run side by side: they differ in
\* project, location, display name, options and mode.
ConcurrentRequests ==
    { r \in Requests :
        /\ r.destination_image_uri = None
        /\ r.mlflow_source_dir = None
        /\ \/ /\ r.project = "proj1"
              /\ r.location = DEFAULT_LOCATION
              /\ r.display_name = "demo"
              /\ r.model_options = NoneDict
              /\ r.synchronous
              /\ r.wait_timeout = DEFAULT_WAIT_TIMEOUT
           \/ /\ r.project = None
              /\ r.location = "europe-west4"
              /\ r.display_name = "iris"
              /\ Has(r.model_options, "container_spec")
              /\ ~r.synchronous
              /\ r.wait_timeout = 60 }

\* register_model(...) is called while another invocation may be running.
ConcurrentCall(c) ==
    /\ pc[c] = "idle"
    /\ \E r \in ConcurrentRequests :
        /\ req' = [req EXCEPT ![c] = r]
        /\ project' = [project EXCEPT ![c] = r.project]
        /\ destination_image_uri' =
               [destination_image_uri EXCEPT ![c] = r.destination_image_uri]
    /\ Goto(c, "resolve")
    /\ UNCHANGED << cli, stream, printed, operation, upload_model_response, log >>

\* Two invocations, their steps interleaved in any order.
NextConcurrent ==
    \E c \in Calls :
        \/ ConcurrentCall(c)
        \/ ProjectGiven(c)
        \/ DefaultCredentials(c)
        \/ DefaultCredentialsError(c)
        \/ DefaultImageUri(c)
        \/ BuildImage(c)
        \/ PushImage(c)
        \/ ScanLine(c)
        \/ ScanEnd(c)
        \/ UploadModel(c)
        \/ WaitResult(c)
        \/ SkipWait(c)
        \/ Return(c)

InitConcurrent == InitOf(Calls)

SpecConcurrent == InitConcurrent /\ [][NextConcurrent]_vars

(* ------------------------------------------------------------------ *)
(* Reading the log                                                     *)
(* ------------------------------------------------------------------ *)

\* The positions in c's log of the calls to fn.
CallsTo(c, fn) == {i \in 1..Len(log[c]) : log[c][i].fn = fn}

Count(c, fn) == Cardinality(CallsTo(c, fn))

\* fn was called and came back without raising.
ReturnedFrom(c, fn) == \E i \in CallsTo(c, fn) : log[c][i].out.kind = "ret"

\* The value the (first) call to fn returned.
ValueOf(c, fn) ==
    log[c][CHOOSE i \in CallsTo(c, fn) : log[c][i].out.kind = "ret"].out.value

\* The arguments of the (first) call to fn.
ArgsOf(c, fn) == log[c][CHOOSE i \in CallsTo(c, fn) : TRUE].args

ErrorPositions(s) == {i \in 1..Len(s) : "errorDetail" \in DOMAIN s[i]}

\* The first record of s that holds an errorDetail.
FirstError(s) ==
    s[CHOOSE i \in ErrorPositions(s) : \A j \in ErrorPositions(s) : i <= j]

Started(c) == pc[c] \notin {"off", "idle"}

(* ------------------------------------------------------------------ *)
(* C1                                                                  *)
(* ------------------------------------------------------------------ *)

\* C1: when the stream the push returned holds an error-detail record at
\* any position, upload_model is never called, the invocation gets no
\* further than the loop over the stream, and it ends raising the APIError
\* that carries the message of the (first) error record.
C1_PushFailureIsGate ==
    \A c \in Calls :
        (ReturnedFrom(c, "push") /\ ErrorPositions(ValueOf(c, "push")) # {}) =>
            /\ Count(c, "upload_model") = 0
            /\ pc[c] \in {"scan", "done"}
            /\ pc[c] = "done" =>
                 outcome[c] =
                   Raised([ type |-> "APIError",
                            message |->
                              FirstError(ValueOf(c, "push"))["errorDetail"]["message"] ])

\* An invocation that ended on an error record that came after a status.
C1_Witness ==
    \E c \in Calls :
        /\ pc[c] = "done"
        /\ ReturnedFrom(c, "push")
        /\ ValueOf(c, "push") =
             << [status |-> "Pushing"],
                [errorDetail |-> [message |-> "denied"], error |-> "denied"] >>
        /\ outcome[c] = Raised([type |-> "APIError", message |-> "denied"])
        /\ printed[c] = << "Pushing" >>

(* ------------------------------------------------------------------ *)
(* C2                                                                  *)
(* ------------------------------------------------------------------ *)

\* C2: an invocation with synchronous=False in which upload_model returned
\* ends returning the operation handle, without a call of result.
C2_AsyncReturnsHandle ==
    \A c \in Calls :
        (pc[c] = "done" /\ ~req[c].synchronous /\ ReturnedFrom(c, "upload_model")) =>
            /\ outcome[c] = Returned(ValueOf(c, "upload_model"))
            /\ Count(c, "result") = 0

(* ------------------------------------------------------------------ *)
(* C3                                                                  *)
(* ------------------------------------------------------------------ *)

\* C3: an invocation with synchronous=True whose operation.result returned
\* was called with timeout=wait_timeout and ends returning the record that
\* result gave, which is not the operation handle.
C3_SyncReturnsRecord ==
    \A c \in Calls :
        (Started(c) /\ req[c].synchronous /\ ReturnedFrom(c, "result")) =>
            /\ ArgsOf(c, "result").timeout = req[c].wait_timeout
            /\ pc[c] \in {"return", "done"}
            /\ pc[c] = "done" =>
                 /\ outcome[c] = Returned(ValueOf(c, "result"))
                 /\ outcome[c].value # operation[c]

\* A synchronous invocation that returned, called with a timeout of its own.
C3_Witness ==
    \E c \in Calls :
        /\ pc[c] = "done"
        /\ req[c].synchronous
        /\ req[c].wait_timeout = 60
        /\ ReturnedFrom(c, "result")
        /\ outcome[c].kind = "return"

(* ------------------------------------------------------------------ *)
(* C4                                                                  *)
(* ------------------------------------------------------------------ *)

\* C4: when project is unset and google.auth.default() raises, the
\* invocation ends raising the ValueError, and build_image, push and
\* upload_model are not called.
C4_NoCredentialsIsValueError ==
    \A c \in Calls :
        \A i \in CallsTo(c, "default") :
            log[c][i].out.kind = "exc" =>
                /\ pc[c] = "done"
                /\ outcome[c].kind = "raise"
                /\ outcome[c].exc.type = "ValueError"
                /\ Count(c, "build_image") = 0
                /\ Count(c, "push") = 0
                /\ Count(c, "upload_model") = 0

(* ------------------------------------------------------------------ *)
(* C5                                                                  *)
(* ------------------------------------------------------------------ *)

\* C5: when project is unset and google.auth.default() returns no project,
\* no image URI is synthesized, build_image, push and upload_model are not
\* called, and the invocation ends raising the ValueError.
C5_NoProjectIsFatal ==
    \A c \in Calls :
        \A i \in CallsTo(c, "default") :
            (log[c][i].out.kind = "ret" /\ log[c][i].out.value = None) =>
                /\ destination_image_uri[c] = req[c].destination_image_uri
                /\ Count(c, "build_image") = 0
                /\ Count(c, "push") = 0
                /\ Count(c, "upload_model") = 0
                /\ pc[c] = "done" =>
                     (outcome[c].kind = "raise" /\ outcome[c].exc.type = "ValueError")

(* ------------------------------------------------------------------ *)
(* C6                                                                  *)
(* ------------------------------------------------------------------ *)

\* The project the request resolves to: the one supplied, or the one
\* google.auth.default() returned.
ResolvedProject(c) ==
    IF Truthy(req[c].project) THEN req[c].project ELSE ValueOf(c, "default")

\* gcr.io/<resolved project>/<display_name>, spelled out.
ExpectedImageUri(c) ==
    "gcr.io/" \o Str(ResolvedProject(c)) \o "/" \o req[c].display_name

CleanPublish(c) ==
    /\ ReturnedFrom(c, "build_image")
    /\ ReturnedFrom(c, "push")
    /\ ErrorPositions(ValueOf(c, "push")) = {}

\* The caller's model_options hold a container_spec of their own.
OverridesContainerSpec(c) ==
    TruthyDict(req[c].model_options) /\ Has(req[c].model_options, "container_spec")

\* C7 as stated: after a build that succeeded and a push stream without an
\* error record, an invocation that ended has called push once and
\* upload_model once, with a descriptor whose container image URI is the
\* given image URI.
C7_CleanPushUploadsGivenImage ==
    \A c \in Calls :
        (pc[c] = "done" /\ CleanPublish(c)) =>
            /\ Count(c, "push") = 1
            /\ Count(c, "upload_model") = 1
            /\ ArgsOf(c, "upload_model").model["container_spec"]["image_uri"]
                 = destination_image_uri[c]

\* C7, amended: after a build that succeeded and a push stream without an
\* error record, an invocation that ended has called push once and
\* upload_model once; the descriptor's container image URI is the given
\* image URI unless model_options holds a container_spec, and then the
\* descriptor's container_spec is the one of model_options.
C7_CleanPushUploadsOnce ==
    \A c \in Calls :
        (pc[c] = "done" /\ CleanPublish(c)) =>
            /\ Count(c, "push") = 1
            /\ Count(c, "upload_model") = 1
            /\ IF OverridesContainerSpec(c)
               THEN ArgsOf(c, "upload_model").model["container_spec"]
                      = req[c].model_options["container_spec"]
               ELSE ArgsOf(c, "upload_model").model["container_spec"]["image_uri"]
                      = destination_image_uri[c]

\* An invocation that ended after a stream of two status records, with the
\* caller's own image URI in the descriptor.
C7_Witness ==
    \E c \in Calls :
        /\ pc[c] = "done"
        /\ CleanPublish(c)
        /\ ValueOf(c, "push") = << [status |-> "Pushing"], [status |-> "Pushing"] >>
        /\ req[c].destination_image_uri = "gcr.io/repo/img:v1"
        /\ ~OverridesContainerSpec(c)
        /\ ArgsOf(c, "upload_model").model["container_spec"]["image_uri"]
             = "gcr.io/repo/img:v1"

(* ------------------------------------------------------------------ *)
(* C8                                                                  *)
(* ------------------------------------------------------------------ *)

\* C8: in the descriptor given to upload_model every top-level key of
\* model_options has exactly the value model_options gives it, every other
\* key of the default descriptor has its default value, and there is no
\* further key.
C8_ShallowMerge ==
    \A c \in Calls :
        \A i \in CallsTo(c, "upload_model") :
            LET m == log[c][i].args.model
                o == req[c].model_options
                d == ModelCfg(c, destination_image_uri[c], req[c].display_name)
            IN  /\ DOMAIN m = DOMAIN d \cup Keys(o)
                /\ \A k \in Keys(o) : m[k] = o[k]
                /\ \A k \in DOMAIN d \ Keys(o) : m[k] = d[k]

\* A descriptor whose container_spec is the caller's, with one field only.
C8_Witness ==
    \E c \in Calls :
        /\ Count(c, "upload_model") = 1
        /\ OverridesContainerSpec(c)
        /\ ArgsOf(c, "upload_model").model["container_spec"] = [image_uri |-> "X"]
        /\ ArgsOf(c, "upload_model").model["display_name"] = req[c].display_name

(* ------------------------------------------------------------------ *)
(* C9                                                                  *)
(* ------------------------------------------------------------------ *)

Collaborators == {"default", "build_image", "push", "upload_model", "result"}

\* Each collaborator is called at most once, a call that raised is the
\* last one made, and an invocation that raised has ended.
AtMostOnceEach ==
    \A c \in Calls :
        /\ \A fn \in Collaborators : Count(c, fn) <= 1
        /\ \A i \in 1..Len(log[c]) :
               log[c][i].out.kind = "exc" =>
                   (i = Len(log[c]) /\ pc[c] = "done" /\ outcome[c].kind = "raise")
        /\ outcome[c].kind = "raise" => pc[c] = "done"

\* An invocation that ended makes no further call and stays ended.
EndedIsFinal ==
    \A c \in Calls :
        pc[c] = "done" =>
            (pc'[c] = "done" /\ log'[c] = log[c] /\ outcome'[c] = outcome[c])

\* C9: in every invocation build_image, push, upload_model and the wait are
\* each called at most once, and once a step has failed no step is run.
C9_NoRetries == []AtMostOnceEach /\ [][EndedIsFinal]_vars

\* upload_model raised after a build and a push, and nothing followed.
C9_Witness ==
    \E c \in Calls :
        /\ pc[c] = "done"
        /\ outcome[c].kind = "raise"
        /\ Len(log[c]) = 3
        /\ log[c][3].fn = "upload_model"
        /\ log[c][3].out.kind = "exc"

(* ------------------------------------------------------------------ *)
(* C10                                                                 *)
(* ------------------------------------------------------------------ *)

\* C10: when synchronous=True and operation.result raises the timeout,
\* the invocation ends raising that error: it returns nothing, and
\* upload_model has been called once.
C10_SyncTimeout ==
    \A c \in Calls :
        \A i \in CallsTo(c, "result") :
            (req[c].synchronous /\ log[c][i].out = Exc(TimeoutErr)) =>
                /\ pc[c] = "done"
                /\ outcome[c] = Raised(TimeoutErr)
                /\ Count(c, "upload_model") = 1

\* An invocation that ended with the timeout of the wait.
C10_Witness ==
    \E c \in Calls :
        /\ pc[c] = "done"
        /\ req[c].synchronous
        /\ Count(c, "result") = 1
        /\ ArgsOf(c, "result").timeout = req[c].wait_timeout
        /\ outcome[c] = Raised(TimeoutErr)

(* ------------------------------------------------------------------ *)
(* C11                                                                 *)
(* ------------------------------------------------------------------ *)

\* C11: upload_model is called with parent
\* projects/<resolved project>/locations/<location> on a client whose
\* api_endpoint is <location>-aiplatform.googleapis.com, the resolved
\* project being the one the default image URI is made of; with project
\* proj1 and the default location the parent is
\* projects/proj1/locations/us-central1.
C11_ParentAndEndpoint ==
    \A c \in Calls :
        \A i \in CallsTo(c, "upload_model") :
            LET a == log[c][i].args
            IN  /\ a.parent = "projects/" \o Str(ResolvedProject(c))
                                \o "/locations/" \o req[c].location
                /\ a.api_endpoint = req[c].location \o "-aiplatform.googleapis.com"
                /\ ~Truthy(req[c].destination_image_uri) =>
                     ArgsOf(c, "push").image =
                       "gcr.io/" \o Str(ResolvedProject(c)) \o "/" \o req[c].display_name
                /\ (req[c].project = "proj1" /\ req[c].location = "us-central1") =>
                     a.parent = "projects/proj1/locations/us-central1"

\* An upload under the project of the credentials, in another region.
C11_Witness ==
    \E c \in Calls :
        /\ Count(c, "upload_model") = 1
        /\ req[c].project = None
        /\ ArgsOf(c, "upload_model").parent = "projects/adc-proj/locations/europe-west4"
        /\ ArgsOf(c, "upload_model").api_endpoint = "europe-west4-aiplatform.googleapis.com"
        /\ ArgsOf(c, "push").image = "gcr.io/adc-proj/demo"

(* ------------------------------------------------------------------ *)
(* C12                                                                 *)
(* ------------------------------------------------------------------ *)

\* C12: for each of the two register-model commands, a command line
\* without --location and without --wait-timeout calls register_model with
\* location "us-central1", wait_timeout 1800 and synchronous=True.
C12_CliDefaults ==
    \A c \in Calls :
        (/\ Started(c)
         /\ cli[c] # NoCommand
         /\ ~Has(cli[c].argv, "location")
         /\ ~Has(cli[c].argv, "wait_timeout")) =>
            /\ req[c].synchronous
            /\ req[c].location = "us-central1"
            /\ req[c].wait_timeout = 1800

(* ------------------------------------------------------------------ *)
(* C13                                                                 *)
(* ------------------------------------------------------------------ *)

\* The place of each collaborator in the pipeline.
Rank(fn) ==
    CASE fn = "default" -> 1
      [] fn = "build_image" -> 2
      [] fn = "push" -> 3
      [] fn = "upload_model" -> 4
      [] fn = "result" -> 5

\* C13: the calls of one invocation come in pipeline order, each after the
\* one before it returned without error: build_image starts with the
\* project and the image URI resolved, push follows a build_image that
\* returned, upload_model follows a push stream that was consumed to its
\* end and held no error record, the wait follows an upload_model that
\* returned; after a build_image that raised there is no push and no
\* upload_model.
C13_LinearOrder ==
    \A c \in Calls :
        /\ \A i, j \in 1..Len(log[c]) :
               i < j => /\ Rank(log[c][i].fn) < Rank(log[c][j].fn)
                        /\ log[c][i].out.kind = "ret"
        /\ Count(c, "build_image") > 0 =>
               /\ pc[c] \notin {"idle", "resolve", "image_uri"}
               /\ ~Truthy(req[c].project) => ReturnedFrom(c, "default")
               /\ Truthy(destination_image_uri[c])
               /\ ArgsOf(c, "build_image").image = destination_image_uri[c]
        /\ Count(c, "push") > 0 => ReturnedFrom(c, "build_image")
        /\ Count(c, "upload_model") > 0 =>
               /\ ReturnedFrom(c, "push")
               /\ ErrorPositions(ValueOf(c, "push")) = {}
               /\ stream[c] = <<>>
        /\ Count(c, "result") > 0 => ReturnedFrom(c, "upload_model")
        /\ (Count(c, "build_image") > 0 /\ ~ReturnedFrom(c, "build_image")) =>
               (Count(c, "push") = 0 /\ Count(c, "upload_model") = 0)

\* All five calls made, in order, after a stream of two records.
C13_Witness ==
    \E c \in Calls :
        /\ pc[c] = "done"
        /\ Len(log[c]) = 5
        /\ \A i \in 1..5 : Rank(log[c][i].fn) = i
        /\ Len(ValueOf(c, "push")) = 2
        /\ printed[c] = << "Pushing" >>

(* ------------------------------------------------------------------ *)
(* C14                                                                 *)
(* ------------------------------------------------------------------ *)

\* C14: when upload_model or the synchronous wait raises, the invocation
\* ends raising that very error, and the raising call is the last thing it
\* did: push was called once, upload_model once, and nothing but the
\* pipeline's own collaborators was ever called.
C14_RegistrationErrorsPassThrough ==
    \A c \in Calls :
        \A i \in CallsTo(c, "upload_model") \cup CallsTo(c, "result") :
            log[c][i].out.kind = "exc" =>
                /\ pc[c] = "done"
                /\ outcome[c] = Raised(log[c][i].out.exc)
                /\ i = Len(log[c])
                /\ ReturnedFrom(c, "push")
                /\ Count(c, "push") = 1
                /\ Count(c, "upload_model") = 1
                /\ \A j \in 1..Len(log[c]) : log[c][j].fn \in Collaborators

\* upload_model raised after a push that succeeded, and the caller got
\* that error.
C14_Witness ==
    \E c \in Calls :
        /\ ReturnedFrom(c, "push")
        /\ Count(c, "upload_model") = 1
        /\ log[c][Len(log[c])].fn = "upload_model"
        /\ log[c][Len(log[c])].out.kind = "exc"
        /\ outcome[c] =
             Raised([type |-> "GoogleAPICallError", message |-> "permission denied"])

(* ------------------------------------------------------------------ *)
(* C15                                                                 *)
(* ------------------------------------------------------------------ *)

\* The container_spec cs has port 8080, the two routes and the env entry
\* FORCE_TF_SERVING_OUTPUT = "True".
ForcedServingSpec(cs) ==
    /\ Has(cs, "ports") /\ cs["ports"] = << [container_port |-> 8080] >>
    /\ Has(cs, "predict_route") /\ cs["predict_route"] = "/invocations"
    /\ Has(cs, "health_route") /\ cs["health_route"] = "/ping"
    /\ Has(cs, "env")
    /\ \E n \in 1..Len(cs["env"]) :
           cs["env"][n] = [name |-> FORCE_TF_SERVING_OUTPUT, value |-> "True"]

\* C15 as stated: whatever model_options the caller passes, the descriptor
\* given to upload_model has a container_spec with port 8080, predict route
\* /invocations, health route /ping and the env entry
\* FORCE_TF_SERVING_OUTPUT = "True".
C15_ForcedOutputAlways ==
    \A c \in Calls :
        \A i \in CallsTo(c, "upload_model") :
            ForcedServingSpec(log[c][i].args.model["container_spec"])

\* C15, amended: the descriptor given to upload_model has that
\* container_spec whenever model_options holds no container_spec of its
\* own; one that it holds replaces the default whole, env entry included.
C15_ForcedOutputUnlessReplaced ==
    \A c \in Calls :
        \A i \in CallsTo(c, "upload_model") :
            IF OverridesContainerSpec(c)
            THEN log[c][i].args.model["container_spec"]
                   = req[c].model_options["container_spec"]
            ELSE ForcedServingSpec(log[c][i].args.model["container_spec"])

\* An upload with model_options that change the display name only: the
\* container_spec is the forced one.
C15_Witness ==
    \E c \in Calls :
        /\ Count(c, "upload_model") = 1
        /\ req[c].model_options = [display_name |-> "other"]
        /\ ArgsOf(c, "upload_model").model["display_name"] = "other"
        /\ ForcedServingSpec(ArgsOf(c, "upload_model").model["container_spec"])

(* ------------------------------------------------------------------ *)
(* C16                                                                 *)
(* ------------------------------------------------------------------ *)

\* What an invocation running alone uses and submits, from its own request
\* and the answers its own calls got.
SoloImageUri(c) ==
    IF Truthy(req[c].destination_image_uri)
    THEN req[c].destination_image_uri
    ELSE "gcr.io/" \o Str(ResolvedProject(c)) \o "/" \o req[c].display_name

SoloParent(c) ==
    "projects/" \o Str(ResolvedProject(c)) \o "/locations/" \o req[c].location

SoloEndpoint(c) == req[c].location \o "-aiplatform.googleapis.com"

SoloDescriptor(c) ==
    LET o == req[c].model_options
        default ==
          [ display_name |-> req[c].display_name,
            container_spec |->
              [ image_uri |-> SoloImageUri(c),
                ports |-> << [container_port |-> 8080] >>,
                env |-> << [name |-> "FORCE_TF_SERVING_OUTPUT", value |-> "True"] >>,
                predict_route |-> "/invocations",
                health_route |-> "/ping" ] ]
    IN  [k \in DOMAIN default \cup Keys(o) |->
            IF k \in Keys(o) THEN o[k] ELSE default[k]]

\* How an invocation that ran alone and made the calls of c's log ended.
SoloOutcomeHolds(c) ==
    LET last == log[c][Len(log[c])]
    IN  IF last.out.kind = "exc"
        THEN /\ outcome[c].kind = "raise"
             /\ IF last.fn = "default"
                THEN outcome[c].exc.type =
                       IF Has(last.out.exc, "message") THEN "ValueError"
                       ELSE "AttributeError"
                ELSE outcome[c].exc = last.out.exc
        ELSE IF last.fn = "push"
        THEN outcome[c] =
               Raised([ type |-> "APIError",
                        message |-> FirstError(last.out.value)["errorDetail"]["message"] ])
        ELSE IF last.fn = "result"
        THEN outcome[c] = Returned(last.out.value)
        ELSE /\ last.fn = "upload_model"
             /\ ~req[c].synchronous
             /\ outcome[c].kind = "raise"
             /\ outcome[c].exc.type = "UnboundLocalError"

\* Every call c made had the arguments it has when c runs alone, and c
\* ended as it ends alone.
AsIfAlone ==
    \A c \in Calls :
        /\ \A i \in CallsTo(c, "build_image") \cup CallsTo(c, "push") :
               log[c][i].args.image = SoloImageUri(c)
        /\ \A i \in CallsTo(c, "upload_model") :
               /\ log[c][i].args.parent = SoloParent(c)
               /\ log[c][i].args.api_endpoint = SoloEndpoint(c)
               /\ log[c][i].args.model = SoloDescriptor(c)
        /\ pc[c] = "done" => SoloOutcomeHolds(c)

\* Nothing of invocation d changes.
Untouched(d) ==
    /\ cli'[d] = cli[d]
    /\ pc'[d] = pc[d]
    /\ req'[d] = req[d]
    /\ project'[d] = project[d]
    /\ destination_image_uri'[d] = destination_image_uri[d]
    /\ stream'[d] = stream[d]
    /\ printed'[d] = printed[d]
    /\ operation'[d] = operation[d]
    /\ upload_model_response'[d] = upload_model_response[d]
    /\ outcome'[d] = outcome[d]
    /\ log'[d] = log[d]

\* A step is a step of one invocation and leaves the other as it was.
OneInvocationSteps == \E c \in Calls : \A d \in Calls \ {c} : Untouched(d)

\* C16: with two invocations interleaved step by step, each one's image
\* URI, parent, endpoint, descriptor and outcome are what its own request
\* and the answers to its own calls make them, and no step of one changes
\* anything of the other.
C16_IndependentInvocations == []AsIfAlone /\ [][OneInvocationSteps]_vars

\* Two invocations with different requests, both past their upload at the
\* same time.
C16_Witness ==
    /\ pc[1] = "wait"
    /\ pc[2] = "wait"
    /\ req[1].project = "proj1"
    /\ req[2].project = None
    /\ ArgsOf(1, "upload_model").parent = "projects/proj1/locations/us-central1"
    /\ ArgsOf(2, "upload_model").parent = "projects/adc-proj/locations/europe-west4"
    /\ ArgsOf(2, "upload_model").api_endpoint = "europe-west4-aiplatform.googleapis.com"

(* ------------------------------------------------------------------ *)
(* C17                                                                 *)
(* ------------------------------------------------------------------ *)

\* C17: within one invocation the tag given to build_image, the image
\* pushed and the image_uri of the descriptor's default container_spec are
\* one value, and a non-empty destination_image_uri of the caller is that
\* value unchanged, whatever the project.
C17_OneImageReference ==
    \A c \in Calls :
        /\ \A i \in CallsTo(c, "push") :
               log[c][i].args.image = ArgsOf(c, "build_image").image
        /\ \A i \in CallsTo(c, "upload_model") :
               ~OverridesContainerSpec(c) =>
                   log[c][i].args.model["container_spec"]["image_uri"]
                     = ArgsOf(c, "push").image
        /\ (Started(c) /\ Truthy(req[c].destination_image_uri)) =>
               /\ \A i \in CallsTo(c, "build_image") \cup CallsTo(c, "push") :
                      log[c][i].args.image = req[c].destination_image_uri
               /\ \A i \in CallsTo(c, "upload_model") :
                      ~OverridesContainerSpec(c) =>
                          log[c][i].args.model["container_spec"]["image_uri"]
                            = req[c].destination_image_uri

\* The caller's image URI built, pushed and submitted, under a project
\* that came from the credentials.
C17_Witness ==
    \E c \in Calls :
        /\ Count(c, "upload_model") = 1
        /\ req[c].project = ""
        /\ project[c] = "adc-proj"
        /\ ArgsOf(c, "build_image").image = "gcr.io/repo/img:v1"
        /\ ArgsOf(c, "push").image = "gcr.io/repo/img:v1"
        /\ ~OverridesContainerSpec(c)
        /\ ArgsOf(c, "upload_model").model["container_spec"]["image_uri"]
             = "gcr.io/repo/img:v1"

(* ------------------------------------------------------------------ *)
(* C18                                                                 *)
(* ------------------------------------------------------------------ *)

\* C18: in an invocation with a non-empty project, google.auth.default()
\* is never called, the invocation does not end with the error of the
\* credentials handler, and the project given is the one in the default
\* image URI and in the parent.
C18_ExplicitProjectBypassesDiscovery ==
    \A c \in Calls :
        (Started(c) /\ Truthy(req[c].project)) =>
            /\ Count(c, "default") = 0
            /\ project[c] = req[c].project
            /\ outcome[c].kind = "raise" =>
                   outcome[c].exc.type \notin {"ValueError", "AttributeError"}
            /\ ~Truthy(req[c].destination_image_uri) =>
                   \A i \in CallsTo(c, "build_image") \cup CallsTo(c, "push") :
                       log[c][i].args.image =
                         "gcr.io/" \o req[c].project \o "/" \o req[c].display_name
            /\ \A i \in CallsTo(c, "upload_model") :
                   log[c][i].args.parent =
                     "projects/" \o req[c].project \o "/locations/" \o req[c].location

\* An invocation with project proj1 that built first thing and uploaded
\* under proj1.
C18_Witness ==
    \E c \in Calls :
        /\ Started(c)
        /\ req[c].project = "proj1"
        /\ Count(c, "upload_model") = 1
        /\ log[c][1].fn = "build_image"
        /\ ArgsOf(c, "push").image = "gcr.io/proj1/iris"
        /\ ArgsOf(c, "upload_model").parent = "projects/proj1/locations/europe-west4"

====
